---- MODULE Spec2Model ----
(***************************************************************************)
(* Model of package metrics (metrics.go and its PushCounter variant).      *)
(*                                                                         *)
(* State: the package globals clientInit / metricClient / clientErr, the   *)
(* FUNCTION_NAME environment value, the label maps owned by the callers    *)
(* (Go maps are reference values: the callee works on the caller's map),   *)
(* and one record per emission call in flight.                             *)
(*                                                                         *)
(* Every emission call is a goroutine of its own; a call is cut at the     *)
(* points where it touches state another call can see: the sync.Once, the  *)
(* read of metricClient, the label map, the remote write.                  *)
(***************************************************************************)
EXTENDS Integers, TLC

NumCalls == 2          \* goroutines of the application that emit metrics

Calls == 1..NumCalls
MapIds == {"m1"}          \* the label map the application owns
NilMap == "nil"           \* a nil map[string]string passed as labels

FnKey == "function_name"
DefaultFunctionName == "Buy"

\* Values of FUNCTION_NAME in the process environment ("" = unset or empty).
EnvValues == {"", "checkout"}

\* Contents a caller gives a label map before passing it.
EmptyMap == [k \in {} |-> ""]

MapContents ==
    { EmptyMap,
      "sku" :> "abc123",
      FnKey :> "",
      (FnKey :> "caller") @@ ("sku" :> "abc123") }

\* Caller-supplied values of PushMetric, by dynamic type.  Floats are
\* counted in hundredths in field d; i, s and b hold integers, strings and
\* booleans.
V(t, i, d, s, b) == [type |-> t, i |-> i, d |-> d, s |-> s, b |-> b]

Values ==
    { V("int", 7, 0, "", FALSE),
      V("int8", 5, 0, "", FALSE),
      V("int16", -6, 0, "", FALSE),
      V("uint16", 40, 0, "", FALSE),
      V("int32", -3, 0, "", FALSE),
      V("int64", 9, 0, "", FALSE),
      V("float32", 0, 150, "", FALSE),
      V("float64", 0, 314, "", FALSE),
      V("string", 0, 0, "abc", FALSE),
      V("bool", 0, 0, "", TRUE),
      V("bool", 0, 0, "", FALSE),
      V("struct", 0, 0, "", FALSE) }

\* The values the concurrent callers pass: one accepted, one rejected.
SampleValues == { V("int", 7, 0, "", FALSE), V("struct", 0, 0, "", FALSE) }

NoValue == V("none", 0, 0, "", FALSE)

\* monpb.TypedValue: the oneof that is set, and its payload.
TV(k, i, d, s) == [kind |-> k, i |-> i, d |-> d, s |-> s]
Unsupported == TV("unsupported", 0, 0, "")

VARIABLES
    envFunctionName,   \* os.Getenv("FUNCTION_NAME")
    clientInit,        \* sync.Once: "new", "running", "done"
    metricClient,      \* "nil" or "client"
    clientErr,         \* "nil" or "err"
    constructed,       \* number of calls of monitoring.NewMetricClient
    labels,            \* the callers' maps: MapIds -> map contents
    pc,                \* where each call stands
    arg,               \* the arguments each call was given
    passed,            \* contents of the label map when the call was made
    req,               \* the CreateTimeSeriesRequest each call handed over
    writes,            \* number of CreateTimeSeries calls each call made
    result,            \* how each call ended
    crashed            \* the runtime stopped the process (fatal error)

vars == <<envFunctionName, clientInit, metricClient, clientErr, constructed,
          labels, pc, arg, passed, req, writes, result, crashed>>

NoArg == [fn |-> "none", value |-> NoValue, labels |-> NilMap]
NoReq == [series |-> 0, points |-> 0, labels |-> EmptyMap, value |-> Unsupported]

----------------------------------------------------------------------------
(* Pure parts *)

getFunctionName(env) == IF env # "" THEN env ELSE DefaultFunctionName

\* if _, ok := labels["function_name"]; !ok { labels["function_name"] = functionName }
InjectOverwrite(m, name) == (FnKey :> name) @@ m

InjectLabel(m, name) ==
    IF FnKey \in DOMAIN m THEN m ELSE (FnKey :> name) @@ m

BoolToInt(b) == IF b THEN 1 ELSE 0

\* the type switch of PushMetric
TypeSwitchTruncating(v) ==
    CASE v.type \in {"int", "int32", "int64"} -> TV("int64", v.i, 0, "")
      [] v.type \in {"float32", "float64"} -> TV("int64", v.d \div 100, 0, "")
      [] v.type = "string" -> TV("string", 0, 0, v.s)
      [] v.type = "bool" -> TV("int64", BoolToInt(v.b), 0, "")
      [] OTHER -> Unsupported

TypeSwitch(v) ==
    CASE v.type \in {"int", "int32", "int64"} -> TV("int64", v.i, 0, "")
      [] v.type \in {"float32", "float64"} -> TV("double", 0, v.d, "")
      [] v.type = "string" -> TV("string", 0, 0, v.s)
      [] v.type = "bool" -> TV("int64", BoolToInt(v.b), 0, "")
      [] OTHER -> Unsupported

\* the point's value: PushCounter always sends Int64Value 1
PointValue(a) ==
    IF a.fn = "PushCounter" THEN TV("int64", 1, 0, "") ELSE TypeSwitch(a.value)

----------------------------------------------------------------------------
Init ==
    /\ envFunctionName \in EnvValues
    /\ clientInit = "new"
    /\ metricClient = "nil"
    /\ clientErr = "nil"
    /\ constructed = 0
    /\ labels \in [MapIds -> MapContents]
    /\ pc = [c \in Calls |-> "idle"]
    /\ arg = [c \in Calls |-> NoArg]
    /\ passed = [c \in Calls |-> EmptyMap]
    /\ req = [c \in Calls |-> NoReq]
    /\ writes = [c \in Calls |-> 0]
    /\ result = [c \in Calls |-> "none"]
    /\ crashed = FALSE

\* A caller starts PushCounter(ctx, name, labels).
CallPushCounter(c) ==
    /\ ~crashed
    /\ pc[c] = "idle"
    /\ \E l \in MapIds \cup {NilMap} :
         /\ arg' = [arg EXCEPT ![c] =
                      [fn |-> "PushCounter", value |-> NoValue, labels |-> l]]
         /\ passed' = [passed EXCEPT ![c] =
                         IF l = NilMap THEN EmptyMap ELSE labels[l]]
    /\ pc' = [pc EXCEPT ![c] = "initClient"]
    /\ UNCHANGED <<envFunctionName, clientInit, metricClient, clientErr,
                   constructed, labels, req, writes, result, crashed>>

\* A caller starts PushMetric(ctx, name, value, labels).
CallPushMetric(c, vals) ==
    /\ ~crashed
    /\ pc[c] = "idle"
    /\ \E l \in MapIds \cup {NilMap}, v \in vals :
         /\ arg' = [arg EXCEPT ![c] =
                      [fn |-> "PushMetric", value |-> v, labels |-> l]]
         /\ passed' = [passed EXCEPT ![c] =
                         IF l = NilMap THEN EmptyMap ELSE labels[l]]
    /\ pc' = [pc EXCEPT ![c] = "initClient"]
    /\ UNCHANGED <<envFunctionName, clientInit, metricClient, clientErr,
                   constructed, labels, req, writes, result, crashed>>

\* clientInit.Do(f): the first caller runs f, a caller that finds f running
\* waits for it, a caller that finds it done returns at once.
InitClientUnguarded(c) ==
    /\ ~crashed
    /\ pc[c] = "initClient"
    /\ \/ /\ clientInit # "running"
          /\ clientInit' = "running"
          /\ constructed' = constructed + 1
          /\ pc' = [pc EXCEPT ![c] = "construct"]
       \/ /\ clientInit = "done"
          /\ pc' = [pc EXCEPT ![c] = "check"]
          /\ UNCHANGED <<clientInit, constructed>>
    /\ UNCHANGED <<envFunctionName, metricClient, clientErr, labels, arg,
                   passed, req, writes, result, crashed>>

InitClientNoWait(c) ==
    /\ ~crashed
    /\ pc[c] = "initClient"
    /\ \/ /\ clientInit = "new"
          /\ clientInit' = "running"
          /\ constructed' = constructed + 1
          /\ pc' = [pc EXCEPT ![c] = "construct"]
       \/ /\ clientInit # "new"
          /\ pc' = [pc EXCEPT ![c] = "check"]
          /\ UNCHANGED <<clientInit, constructed>>
    /\ UNCHANGED <<envFunctionName, metricClient, clientErr, labels, arg,
                   passed, req, writes, result, crashed>>

InitClient(c) ==
    /\ ~crashed
    /\ pc[c] = "initClient"
    /\ \/ /\ clientInit = "new"
          /\ clientInit' = "running"
          /\ constructed' = constructed + 1
          /\ pc' = [pc EXCEPT ![c] = "construct"]
       \/ /\ clientInit = "done"
          /\ pc' = [pc EXCEPT ![c] = "check"]
          /\ UNCHANGED <<clientInit, constructed>>
    /\ UNCHANGED <<envFunctionName, metricClient, clientErr, labels, arg,
                   passed, req, writes, result, crashed>>

\* monitoring.NewMetricClient returns (client, nil) or (nil, err); Do returns.
Construct(c) ==
    /\ ~crashed
    /\ pc[c] = "construct"
    /\ \/ metricClient' = "client" /\ clientErr' = "nil"
       \/ metricClient' = "nil" /\ clientErr' = "err"
    /\ clientInit' = "done"
    /\ pc' = [pc EXCEPT ![c] = "check"]
    /\ UNCHANGED <<envFunctionName, constructed, labels, arg, passed, req,
                   writes, result, crashed>>

\* if metricClient == nil { return }
CheckClientIgnoringNil(c) ==
    /\ ~crashed
    /\ pc[c] = "check"
    /\ pc' = [pc EXCEPT ![c] = "inject"]
    /\ UNCHANGED <<envFunctionName, clientInit, metricClient, clientErr,
                   constructed, labels, arg, passed, req, writes, result,
                   crashed>>

CheckClient(c) ==
    /\ ~crashed
    /\ pc[c] = "check"
    /\ IF metricClient = "nil"
         THEN /\ pc' = [pc EXCEPT ![c] = "done"]
              /\ result' = [result EXCEPT ![c] = "disabled"]
         ELSE /\ pc' = [pc EXCEPT ![c] = "inject"]
              /\ UNCHANGED result
    /\ UNCHANGED <<envFunctionName, clientInit, metricClient, clientErr,
                   constructed, labels, arg, passed, req, writes, crashed>>

\* Accesses of the caller's map that a call is about to make.  The map is
\* read by the lookup of line 63 and by the marshalling of the request; it
\* is written by line 64 when the key is missing.
HasMap(c) == arg[c].labels # NilMap

PendingRead(c) == HasMap(c) /\ pc[c] \in {"inject", "send"}

PendingWrite(c) ==
    /\ HasMap(c)
    /\ pc[c] = "inject"
    /\ FnKey \notin DOMAIN labels[arg[c].labels]

\* Two calls are about to touch the same map with nothing ordering them, and
\* one of them writes.
Racing(c1, c2) ==
    /\ c1 # c2
    /\ arg[c1].labels = arg[c2].labels
    /\ PendingWrite(c1)
    /\ PendingRead(c2)

\* Lines 57-91: resolve the names, add the function_name label to the
\* caller's map, pick the typed value.  Assigning into a nil map panics.
InjectAfterDispatch(c) ==
    /\ ~crashed
    /\ pc[c] = "inject"
    /\ IF PointValue(arg[c]) = Unsupported
         THEN /\ pc' = [pc EXCEPT ![c] = "done"]
              /\ result' = [result EXCEPT ![c] = "unsupported"]
              /\ UNCHANGED labels
         ELSE IF ~HasMap(c)
           THEN /\ pc' = [pc EXCEPT ![c] = "panicked"]
                /\ result' = [result EXCEPT ![c] = "panic"]
                /\ UNCHANGED labels
           ELSE /\ labels' = [labels EXCEPT ![arg[c].labels] =
                                InjectLabel(@, getFunctionName(envFunctionName))]
                /\ pc' = [pc EXCEPT ![c] = "send"]
                /\ UNCHANGED result
    /\ UNCHANGED <<envFunctionName, clientInit, metricClient, clientErr,
                   constructed, arg, passed, req, writes, crashed>>

Inject(c) ==
    /\ ~crashed
    /\ pc[c] = "inject"
    /\ IF ~HasMap(c)
         THEN /\ pc' = [pc EXCEPT ![c] = "panicked"]
              /\ result' = [result EXCEPT ![c] = "panic"]
              /\ UNCHANGED labels
         ELSE /\ labels' = [labels EXCEPT ![arg[c].labels] =
                              InjectLabel(@, getFunctionName(envFunctionName))]
              /\ IF PointValue(arg[c]) = Unsupported
                   THEN /\ pc' = [pc EXCEPT ![c] = "done"]
                        /\ result' = [result EXCEPT ![c] = "unsupported"]
                   ELSE /\ pc' = [pc EXCEPT ![c] = "send"]
                        /\ UNCHANGED result
    /\ UNCHANGED <<envFunctionName, clientInit, metricClient, clientErr,
                   constructed, arg, passed, req, writes, crashed>>

\* Lines 93-119: one request with one time series with one point; its labels
\* are the caller's map itself.  CreateTimeSeries succeeds or fails; a
\* failure is logged.
Request(c) ==
    [series |-> 1, points |-> 1, labels |-> labels[arg[c].labels],
     value |-> PointValue(arg[c])]

SendRetrying(c) ==
    /\ ~crashed
    /\ pc[c] = "send"
    /\ req' = [req EXCEPT ![c] = Request(c)]
    /\ \/ /\ result' = [result EXCEPT ![c] = "sent"]
          /\ writes' = [writes EXCEPT ![c] = @ + 1]
       \/ /\ result' = [result EXCEPT ![c] = "write_error"]
          /\ writes' = [writes EXCEPT ![c] = @ + 2]
    /\ pc' = [pc EXCEPT ![c] = "done"]
    /\ UNCHANGED <<envFunctionName, clientInit, metricClient, clientErr,
                   constructed, labels, arg, passed, crashed>>

Send(c) ==
    /\ ~crashed
    /\ pc[c] = "send"
    /\ req' = [req EXCEPT ![c] = Request(c)]
    /\ writes' = [writes EXCEPT ![c] = @ + 1]
    /\ \/ result' = [result EXCEPT ![c] = "sent"]
       \/ result' = [result EXCEPT ![c] = "write_error"]
    /\ pc' = [pc EXCEPT ![c] = "done"]
    /\ UNCHANGED <<envFunctionName, clientInit, metricClient, clientErr,
                   constructed, labels, arg, passed, crashed>>

\* Unsynchronised access to one Go map from two goroutines is a data race.
\* The accesses either go through one after the other (Inject, Send) or the
\* runtime detects them and stops the process with "fatal error: concurrent
\* map writes" / "concurrent map read and map write".
Fatal(c) ==
    /\ ~crashed
    /\ \E c2 \in Calls : Racing(c, c2)
    /\ crashed' = TRUE
    /\ UNCHANGED <<envFunctionName, clientInit, metricClient, clientErr,
                   constructed, labels, pc, arg, passed, req, writes, result>>

\* The call has returned to its caller, which goes on and may call again.
Return(c) ==
    /\ ~crashed
    /\ pc[c] = "done"
    /\ pc' = [pc EXCEPT ![c] = "idle"]
    /\ arg' = [arg EXCEPT ![c] = NoArg]
    /\ passed' = [passed EXCEPT ![c] = EmptyMap]
    /\ req' = [req EXCEPT ![c] = NoReq]
    /\ writes' = [writes EXCEPT ![c] = 0]
    /\ result' = [result EXCEPT ![c] = "none"]
    /\ UNCHANGED <<envFunctionName, clientInit, metricClient, clientErr,
                   constructed, labels, crashed>>

\* The steps of a call that has been made.
Step(c) ==
    \/ InitClient(c)
    \/ Construct(c)
    \/ CheckClient(c)
    \/ Inject(c)
    \/ Send(c)
    \/ Return(c)

\* Goroutines that call at any time, also while other calls are in flight.
Next ==
    \E c \in Calls :
        \/ CallPushCounter(c)
        \/ CallPushMetric(c, SampleValues)
        \/ Step(c)
        \/ Fatal(c)

Spec == Init /\ [][Next]_vars

\* Callers that call one after the other, with every kind of value.
Quiet == \A c \in Calls : pc[c] \in {"idle", "panicked"}

NextSeq ==
    \E c \in Calls :
        \/ Quiet /\ CallPushCounter(c)
        \/ Quiet /\ CallPushMetric(c, Values)
        \/ Step(c)

SpecSeq == Init /\ [][NextSeq]_vars

----------------------------------------------------------------------------
(* Properties *)

\* The call has come back from initClient.
PastInit(c) == pc[c] \in {"check", "inject", "send", "done", "panicked"}

Disabled == clientInit = "done" /\ metricClient = "nil"
Ready == clientInit = "done" /\ metricClient = "client"

\* C1: monitoring.NewMetricClient is run at most once in a run, and exactly
\* once as soon as one emission call has come back from initClient, whether
\* the construction succeeded or failed.
ConstructedOnce ==
    /\ constructed <= 1
    /\ \A c \in Calls : PastInit(c) => constructed = 1
    /\ clientInit = "done" => constructed = 1

\* Two calls are past initClient after a failed construction.
ConstructedOnceWitness ==
    /\ clientErr = "err"
    /\ constructed = 1
    /\ \E c1, c2 \in Calls : c1 # c2 /\ PastInit(c1) /\ PastInit(c2)

\* C2: no call reads metricClient before the construction has completed, so
\* no call returns as disabled in a run whose construction succeeds and no
\* call goes past the nil test in a run whose construction fails.
ReadsAfterConstruction ==
    \A c \in Calls :
        /\ PastInit(c) => clientInit = "done"
        /\ metricClient = "client" => result[c] # "disabled"
        /\ Disabled => /\ pc[c] \notin {"inject", "send", "panicked"}
                       /\ result[c] \in {"none", "disabled"}

\* A caller waits in initClient while another call runs the construction.
ReadsAfterConstructionWitness ==
    /\ clientInit = "running"
    /\ \E c1, c2 \in Calls : pc[c1] = "construct" /\ pc[c2] = "initClient"

\* C3: once the construction has failed the client stays disabled: no step
\* constructs again, makes the client ready, takes a call past the nil test
\* or makes a remote write.
DisabledForever ==
    [][Disabled =>
          /\ Disabled'
          /\ constructed' = constructed
          /\ \A c \in Calls : /\ writes'[c] = 0
                              /\ req'[c] = NoReq
                              /\ pc'[c] \notin {"inject", "send"}]_vars

\* Two calls have returned as disabled.
DisabledForeverWitness ==
    /\ Disabled
    /\ \E c1, c2 \in Calls :
         c1 # c2 /\ result[c1] = "disabled" /\ result[c2] = "disabled"

\* C4: no emission call ends in a panic and none stops the process, whatever
\* the labels argument (a populated, an empty or a nil map), the value, the
\* outcome of the construction and of the remote write.
NothingSurfaces ==
    /\ ~crashed
    /\ \A c \in Calls : pc[c] # "panicked"

\* C5: a PushMetric call whose value the type switch does not accept makes
\* no remote write and returns normally.
UnsupportedReturnsQuietly ==
    \A c \in Calls :
        (arg[c].fn = "PushMetric" /\ TypeSwitch(arg[c].value) = Unsupported)
            => /\ writes[c] = 0
               /\ req[c] = NoReq
               /\ pc[c] # "panicked"

IntegerTypes == {"int", "int8", "int16", "uint16", "int32", "int64"}
AcceptedTypes == {"int", "int32", "int64", "float32", "float64", "string", "bool"}

\* The point carries the value under the widening rules.
Widened(v, t) ==
    /\ v.type \in IntegerTypes => t.kind = "int64" /\ t.i = v.i
    /\ v.type \in {"float32", "float64"} => t.kind = "double" /\ t.d = v.d
    /\ v.type = "string" => t.kind = "string" /\ t.s = v.s
    /\ v.type = "bool" => t.kind = "int64" /\ t.i = (IF v.b THEN 1 ELSE 0)

\* C6 as stated: every integer of every width, the widths below 32 bits
\* included, is sent as the 64-bit integer of the same value.
EveryIntegerWidthSent ==
    \A c \in Calls :
        (/\ arg[c].fn = "PushMetric"
         /\ arg[c].value.type \in IntegerTypes
         /\ result[c] \in {"sent", "write_error", "unsupported"})
            => /\ req[c] # NoReq
               /\ Widened(arg[c].value, req[c].value)

\* C6 as amended: a request of PushMetric carries a value of an accepted type
\* (int, int32, int64, float32, float64, string, bool) under the widening
\* rules; the other integer types (int8, int16, the unsigned ones) are
\* rejected as unsupported and nothing is sent for them.
TypedValueMatches ==
    \A c \in Calls :
        arg[c].fn = "PushMetric" =>
            /\ req[c] # NoReq =>
                 /\ arg[c].value.type \in AcceptedTypes
                 /\ Widened(arg[c].value, req[c].value)
            /\ (pc[c] = "done" /\ arg[c].value.type \notin AcceptedTypes) =>
                 /\ req[c] = NoReq
                 /\ result[c] \in {"unsupported", "disabled"}

\* A float32 has been sent, as the double of the same value.
TypedValueMatchesWitness ==
    \E c \in Calls :
        /\ arg[c].fn = "PushMetric"
        /\ arg[c].value.type = "float32"
        /\ result[c] = "sent"
        /\ req[c].value = TV("double", 0, 150, "")

\* C7: the labels of a request are the labels the caller passed, with
\* function_name added as the resolved service name when the caller did not
\* give it and left as the caller gave it otherwise; no other key is added,
\* removed or changed.
LabelsPreserved ==
    \A c \in Calls :
        req[c] # NoReq =>
            LET p == passed[c]
                r == req[c].labels
            IN  /\ DOMAIN r = DOMAIN p \cup {FnKey}
                /\ FnKey \in DOMAIN p => r[FnKey] = p[FnKey]
                /\ FnKey \notin DOMAIN p =>
                     r[FnKey] = getFunctionName(envFunctionName)
                /\ \A k \in DOMAIN p \ {FnKey} : r[k] = p[k]

\* A request went out whose caller gave function_name as the empty string
\* while the resolved name is another one.
LabelsPreservedWitness ==
    \E c \in Calls :
        /\ req[c] # NoReq
        /\ FnKey \in DOMAIN passed[c]
        /\ passed[c][FnKey] = ""
        /\ req[c].labels[FnKey] = ""

\* C8: a call makes at most one remote write, of one time series with one
\* point, and exactly one when it has ended with the client ready and a
\* supported value.
OneWritePerCall ==
    \A c \in Calls :
        /\ writes[c] <= 1
        /\ writes[c] = 1 => req[c].series = 1 /\ req[c].points = 1
        /\ (/\ pc[c] \in {"done", "panicked"}
            /\ Ready
            /\ PointValue(arg[c]) # Unsupported) => writes[c] = 1

\* C9: no two calls in flight are about to touch one location with one of
\* them writing it.
NoDataRace == \A c1, c2 \in Calls : ~Racing(c1, c2)

\* C10: after PushMetric has returned, the caller's map is as passed when
\* the client is disabled, and holds function_name as the resolved service
\* name when the client is ready and the map lacked it, also when the value
\* was rejected or the write failed.
InjectionFollowsClient ==
    \A c \in Calls :
        (arg[c].fn = "PushMetric" /\ pc[c] = "done" /\ HasMap(c)) =>
            LET m == labels[arg[c].labels]
            IN  /\ result[c] = "disabled" => m = passed[c]
                /\ (result[c] # "disabled" /\ FnKey \notin DOMAIN passed[c]) =>
                     /\ FnKey \in DOMAIN m
                     /\ m[FnKey] = getFunctionName(envFunctionName)

\* PushMetric has rejected a value and the caller's map, which lacked
\* function_name, holds it now.
InjectionFollowsClientWitness ==
    \E c \in Calls :
        /\ arg[c].fn = "PushMetric"
        /\ result[c] = "unsupported"
        /\ HasMap(c)
        /\ FnKey \notin DOMAIN passed[c]
        /\ FnKey \in DOMAIN labels[arg[c].labels]

====
